---------------------------- MODULE Spec2Model ----------------------------
(***************************************************************************)
(* Event-booking backend: the Event and Booking schemas with their         *)
(* pre-save hooks (database/event.model.ts, database/booking.model.ts),    *)
(* the cached store connection (lib/mongodb.ts) and the GET-by-slug route  *)
(* (app/api/events/[slug]/route.ts).                                       *)
(*                                                                         *)
(* Strings are sequences of one-character strings, so that trimming, case  *)
(* folding and the regular expressions of the source are computed.         *)
(***************************************************************************)
EXTENDS Integers, Sequences, FiniteSets, TLC

VARIABLES
    fn,        \* pure-function harness: which function is applied
    fin,       \* pure-function harness: its input string
    fout,      \* pure-function harness: its result (None before the call)
    events,    \* the Event collection: _id -> stored document
    bookings,  \* the Booking collection: a set of stored documents
    wr,        \* per writer: the in-memory document being saved and its position
    cached,    \* lib/mongodb.ts `cached`: [conn, promise]
    attempts,  \* mongoose.connect attempts: id -> "pending" | "ok" | "failed"
    jobs,      \* promise reactions queued by a settled attempt, in FIFO order
    req,       \* per GET request: its position, slug argument and response
    uri,       \* process.env.MONGODB_URI is set
    ops        \* documents constructed so far (the next _id is ops + 1)

vars == <<fn, fin, fout, events, bookings, wr, cached, attempts, jobs, req, uri, ops>>

None == "none"                     \* no error, no position, no name
Undefined == <<"undefined">>       \* a field that is not set
NoDoc == [absent |-> TRUE]         \* no document (null)
NoResult == [pending |-> TRUE]     \* a call that has not returned
NoMatch == [matched |-> FALSE]     \* String.prototype.match returned null

-----------------------------------------------------------------------------
(* Characters and the string primitives of the source                      *)

Digits == {"0", "1", "2", "3", "4", "5", "6", "7", "8", "9"}
LowerLetters == {"a", "b", "c", "d", "e", "f", "h", "i", "l", "m", "n", "o", "p", "r",
                 "s", "x", "y"}
UpperLetters == {"A", "B", "M", "O", "P", "X"}

\* \s of the regular expressions and the characters String.prototype.trim removes
IsSpace(c) == c \in {" ", "\t"}

\* \w of the regular expressions
IsWord(c) == c \in Digits \cup LowerLetters \cup UpperLetters \cup {"_"}

LowerChar(c) ==
    CASE c = "A" -> "a" [] c = "B" -> "b" [] c = "M" -> "m"
      [] c = "P" -> "p" [] c = "X" -> "x" [] c = "O" -> "o" [] OTHER -> c

UpperChar(c) ==
    CASE c = "a" -> "A" [] c = "b" -> "B" [] c = "m" -> "M"
      [] c = "p" -> "P" [] c = "x" -> "X" [] c = "c" -> "C"
      [] c = "d" -> "D" [] c = "e" -> "E" [] c = "n" -> "N"
      [] c = "o" -> "O" [] c = "s" -> "S" [] OTHER -> c

toLowerCase(s) == [i \in 1..Len(s) |-> LowerChar(s[i])]

toUpperCase(s) == [i \in 1..Len(s) |-> UpperChar(s[i])]

\* the characters of s at the indices satisfying Keep, in order
SelectIdx(s, Keep(_)) ==
    LET F[i \in 0..Len(s)] ==
            IF i = 0 THEN <<>>
            ELSE IF Keep(i) THEN Append(F[i - 1], s[i]) ELSE F[i - 1]
    IN  F[Len(s)]

\* String.prototype.trim
trim(s) ==
    LET nonSpace == {i \in 1..Len(s) : ~IsSpace(s[i])}
    IN  IF nonSpace = {} THEN <<>>
        ELSE LET lo == CHOOSE i \in nonSpace : \A j \in nonSpace : i <= j
                 hi == CHOOSE i \in nonSpace : \A j \in nonSpace : j <= i
             IN  SubSeq(s, lo, hi)

\* .replace(/[^\w\s-]/g, '')
RemoveSpecial(s) == SelectSeq(s, LAMBDA c : IsWord(c) \/ IsSpace(c) \/ c = "-")

\* .replace(/\s+/g, '-')
SpacesToHyphen(s) ==
    LET t == SelectIdx(s, LAMBDA i : ~IsSpace(s[i]) \/ i = 1 \/ ~IsSpace(s[i - 1]))
    IN  [i \in 1..Len(t) |-> IF IsSpace(t[i]) THEN "-" ELSE t[i]]

\* .replace(/--+/g, '-')
CollapseHyphens(s) ==
    SelectIdx(s, LAMBDA i : s[i] # "-" \/ i = 1 \/ s[i - 1] # "-")

\* .replace(/^-+|-+$/g, '')
StripHyphens(s) ==
    LET nonHyphen == {i \in 1..Len(s) : s[i] # "-"}
    IN  IF nonHyphen = {} THEN <<>>
        ELSE LET lo == CHOOSE i \in nonHyphen : \A j \in nonHyphen : i <= j
                 hi == CHOOSE i \in nonHyphen : \A j \in nonHyphen : j <= i
             IN  SubSeq(s, lo, hi)

\* a slug generator that forgets to collapse runs of hyphens
generateSlugNoCollapse(title) ==
    StripHyphens(SpacesToHyphen(RemoveSpecial(trim(toLowerCase(title)))))

generateSlug(title) ==
    StripHyphens(CollapseHyphens(SpacesToHyphen(RemoveSpecial(trim(toLowerCase(title))))))

-----------------------------------------------------------------------------
(* Numbers and digit strings                                               *)

DigitVal(c) ==
    CASE c = "0" -> 0 [] c = "1" -> 1 [] c = "2" -> 2 [] c = "3" -> 3
      [] c = "4" -> 4 [] c = "5" -> 5 [] c = "6" -> 6 [] c = "7" -> 7
      [] c = "8" -> 8 [] c = "9" -> 9

DigitChar(n) ==
    CASE n = 0 -> "0" [] n = 1 -> "1" [] n = 2 -> "2" [] n = 3 -> "3"
      [] n = 4 -> "4" [] n = 5 -> "5" [] n = 6 -> "6" [] n = 7 -> "7"
      [] n = 8 -> "8" [] n = 9 -> "9"

AllDigits(s) == \A i \in 1..Len(s) : s[i] \in Digits

\* parseInt of a string of decimal digits
RECURSIVE parseInt(_)
parseInt(s) ==
    IF Len(s) = 0 THEN 0
    ELSE 10 * parseInt(SubSeq(s, 1, Len(s) - 1)) + DigitVal(s[Len(s)])

\* Number.prototype.toString of a natural number
RECURSIVE toString(_)
toString(n) ==
    IF n < 10 THEN <<DigitChar(n)>>
    ELSE Append(toString(n \div 10), DigitChar(n % 10))

\* String.prototype.padStart(width, '0')
RECURSIVE padStart(_, _)
padStart(s, width) == IF Len(s) >= width THEN s ELSE padStart(<<"0">> \o s, width)

Ok(v) == [ok |-> TRUE, val |-> v]
Err(e) == [ok |-> FALSE, err |-> e]


-----------------------------------------------------------------------------
(* Date/time normalizers                                                   *)

IsLeap(y) == (y % 4 = 0 /\ y % 100 # 0) \/ y % 400 = 0

DaysInMonth(y, m) ==
    IF m = 2 THEN (IF IsLeap(y) THEN 29 ELSE 28)
    ELSE IF m \in {4, 6, 9, 11} THEN 30 ELSE 31

NaN == [nan |-> TRUE]

\* new Date(dateStr), for the strings the model feeds it: an ISO date-only
\* string YYYY-MM-DD is UTC midnight of that day, with month 01-12 and day
\* 01-31 accepted and a day past the end of the month carried into the next
\* month (the engine's MakeDay); a string that is not of that shape and holds
\* no digit is an Invalid Date.
newDate(dateStr) ==
    IF /\ Len(dateStr) = 10
       /\ dateStr[5] = "-" /\ dateStr[8] = "-"
       /\ \A i \in {1, 2, 3, 4, 6, 7, 9, 10} : dateStr[i] \in Digits
    THEN LET y == parseInt(SubSeq(dateStr, 1, 4))
             m == parseInt(SubSeq(dateStr, 6, 7))
             d == parseInt(SubSeq(dateStr, 9, 10))
         IN  IF m \notin 1..12 \/ d \notin 1..31 THEN NaN
             ELSE IF d <= DaysInMonth(y, m) THEN [nan |-> FALSE, y |-> y, m |-> m, d |-> d]
             ELSE IF m = 12
                  THEN [nan |-> FALSE, y |-> y + 1, m |-> 1, d |-> d - DaysInMonth(y, m)]
                  ELSE [nan |-> FALSE, y |-> y, m |-> m + 1, d |-> d - DaysInMonth(y, m)]
    ELSE NaN

\* date.toISOString().split('T')[0]
isoDatePart(date) ==
    padStart(toString(date.y), 4) \o <<"-">> \o padStart(toString(date.m), 2)
        \o <<"-">> \o padStart(toString(date.d), 2)

normalizeDate(dateStr) ==
    LET date == newDate(dateStr)
    IN  IF date.nan THEN Err("InvalidDateFormat") ELSE Ok(isoDatePart(date))

\* /^([0-1]?[0-9]|2[0-3]):([0-5][0-9])$/
time24Regex(s) ==
    \/ /\ Len(s) = 4
       /\ s[1] \in Digits /\ s[2] = ":"
       /\ s[3] \in {"0", "1", "2", "3", "4", "5"} /\ s[4] \in Digits
    \/ /\ Len(s) = 5
       /\ \/ s[1] \in {"0", "1"} /\ s[2] \in Digits
          \/ s[1] = "2" /\ s[2] \in {"0", "1", "2", "3"}
       /\ s[3] = ":"
       /\ s[4] \in {"0", "1", "2", "3", "4", "5"} /\ s[5] \in Digits

\* /^(\d{1,2}):(\d{2})\s*(AM|PM)$/i : the match groups, or None
time12Regex(s) ==
    LET colon == {i \in {2, 3} : i <= Len(s) /\ s[i] = ":" /\ AllDigits(SubSeq(s, 1, i - 1))}
    IN  IF colon = {} THEN NoMatch
        ELSE LET c == CHOOSE i \in colon : TRUE
                 n == Len(s)
             IN  IF /\ n >= c + 4
                    /\ AllDigits(SubSeq(s, c + 1, c + 2))
                    /\ toUpperCase(SubSeq(s, n - 1, n)) \in {<<"A", "M">>, <<"P", "M">>}
                    /\ \A i \in (c + 3)..(n - 2) : IsSpace(s[i])
                 THEN [hours |-> SubSeq(s, 1, c - 1), minutes |-> SubSeq(s, c + 1, c + 2),
                       period |-> SubSeq(s, n - 1, n)]
                 ELSE NoMatch

normalizeTime(timeStr) ==
    LET cleaned == toUpperCase(trim(timeStr))
        match == time12Regex(cleaned)
    IN  IF time24Regex(cleaned) THEN Ok(cleaned)
        ELSE IF match # NoMatch
        THEN LET h == parseInt(match.hours)
                 hours == IF match.period = <<"P", "M">> /\ h # 12 THEN h + 12
                          ELSE IF match.period = <<"A", "M">> /\ h = 12 THEN 0
                          ELSE h
             IN  Ok(padStart(toString(hours), 2) \o <<":">> \o match.minutes)
        ELSE Err("InvalidTimeFormat")

-----------------------------------------------------------------------------
(* Event schema: setters, validators, pre-save hook, unique slug index     *)

MaxOps == 3               \* saves started in one run of the store model
Writers == {"w1", "w2"}   \* concurrently executing requests that save documents
EventIds == 1..MaxOps     \* _id of the k-th document constructed

MinTitleLength == 3
MaxTitleLength == 200
MinDescriptionLength == 10
ModeValues == {<<"o", "n", "l", "i", "n", "e">>, <<"o", "f", "f", "l", "i", "n", "e">>,
               <<"h", "y", "b", "r", "i", "d">>}

EventFields == {"title", "description", "date", "time", "mode", "agenda"}

\* the schema's setters, applied when a field is assigned (trim: true, lowercase: true)
ApplySetters(field, v) ==
    IF v = Undefined THEN Undefined
    ELSE CASE field = "title" -> trim(v)
           [] field = "description" -> trim(v)
           [] field = "mode" -> toLowerCase(v)
           [] field = "slug" -> trim(toLowerCase(v))
           [] OTHER -> v

\* the schema's static constraints (required, minlength, maxlength, enum, validate)
ValidateEvent(doc) ==
    /\ doc.title # Undefined /\ doc.title # <<>>
    /\ Len(doc.title) >= MinTitleLength /\ Len(doc.title) <= MaxTitleLength
    /\ doc.description # Undefined /\ Len(doc.description) >= MinDescriptionLength
    /\ doc.date # Undefined /\ doc.date # <<>>
    /\ doc.time # Undefined /\ doc.time # <<>>
    /\ doc.mode # Undefined /\ doc.mode \in ModeValues
    /\ doc.agenda # Undefined /\ Len(doc.agenda) > 0

\* a hook that normalizes slug, date and time whether or not they were modified
preSaveEventAlways(doc, modified) ==
    LET slug == ApplySetters("slug", generateSlug(doc.title))
        d == normalizeDate(doc.date)
        t == normalizeTime(doc.time)
    IN  IF ~d.ok THEN [ok |-> FALSE, err |-> d.err, doc |-> [doc EXCEPT !.slug = slug],
                       ran |-> {"slug", "date"}]
        ELSE IF ~t.ok THEN [ok |-> FALSE, err |-> t.err,
                            doc |-> [doc EXCEPT !.slug = slug, !.date = d.val],
                            ran |-> {"slug", "date", "time"}]
        ELSE [ok |-> TRUE, err |-> None,
              doc |-> [doc EXCEPT !.slug = slug, !.date = d.val, !.time = t.val],
              ran |-> {"slug", "date", "time"}]

\* a hook that swallows a normalization error and lets the save go on
preSaveEventSwallow(doc, modified) ==
    LET slug == IF "title" \in modified THEN ApplySetters("slug", generateSlug(doc.title))
                ELSE doc.slug
        d == IF "date" \in modified THEN normalizeDate(doc.date) ELSE Ok(doc.date)
        t == IF "time" \in modified THEN normalizeTime(doc.time) ELSE Ok(doc.time)
    IN  [ok |-> TRUE, err |-> None,
         doc |-> [doc EXCEPT !.slug = slug,
                             !.date = IF d.ok THEN d.val ELSE doc.date,
                             !.time = IF t.ok THEN t.val ELSE doc.time],
         ran |-> (IF "title" \in modified THEN {"slug"} ELSE {})
                 \cup (IF "date" \in modified THEN {"date"} ELSE {})
                 \cup (IF "time" \in modified THEN {"time"} ELSE {})]

\* eventSchema.pre('save'): the in-memory document after the hook, the error
\* passed to next() if any, and which of the three normalizations ran
preSaveEvent(doc, modified) ==
    LET slug == IF "title" \in modified THEN ApplySetters("slug", generateSlug(doc.title))
                ELSE doc.slug
        d == IF "date" \in modified THEN normalizeDate(doc.date) ELSE Ok(doc.date)
        t == IF "time" \in modified THEN normalizeTime(doc.time) ELSE Ok(doc.time)
        ranSlug == IF "title" \in modified THEN {"slug"} ELSE {}
        ranDate == IF "date" \in modified THEN {"date"} ELSE {}
        ranTime == IF "time" \in modified THEN {"time"} ELSE {}
    IN  IF ~d.ok THEN [ok |-> FALSE, err |-> d.err, doc |-> [doc EXCEPT !.slug = slug],
                       ran |-> ranSlug \cup ranDate]
        ELSE IF ~t.ok THEN [ok |-> FALSE, err |-> t.err,
                            doc |-> [doc EXCEPT !.slug = slug, !.date = d.val],
                            ran |-> ranSlug \cup ranDate \cup ranTime]
        ELSE [ok |-> TRUE, err |-> None,
              doc |-> [doc EXCEPT !.slug = slug, !.date = d.val, !.time = t.val],
              ran |-> ranSlug \cup ranDate \cup ranTime]

\* an index on slug that is not unique
slugIndexNotUnique(evs, id, slug) == FALSE

\* the unique index on slug: another stored Event already holds this slug
slugIndexConflict(evs, id, slug) ==
    \E other \in EventIds \ {id} : evs[other] # NoDoc /\ evs[other].slug = slug

-----------------------------------------------------------------------------
(* Booking schema: email validator and the pre-save reference check        *)

NoId == 0

\* /^[^\s@]+@[^\s@]+\.[^\s@]+$/
emailRegex(s) ==
    /\ \A i \in 1..Len(s) : ~IsSpace(s[i])
    /\ Cardinality({i \in 1..Len(s) : s[i] = "@"}) = 1
    /\ LET at == CHOOSE i \in 1..Len(s) : s[i] = "@"
       IN  /\ at > 1
           /\ \E dot \in (at + 2)..(Len(s) - 1) : s[dot] = "."

\* required eventId, required email matching emailRegex (after trim and lowercase)
ValidateBooking(doc) ==
    /\ doc.eventId # NoId
    /\ doc.email # Undefined /\ doc.email # <<>>
    /\ emailRegex(doc.email)

\* Event.findById
findById(evs, id) == IF id \in EventIds THEN evs[id] ELSE NoDoc

\* a hook that looks the Event up and saves the Booking whatever it finds
preSaveBookingNoThrow(isNew, eventIdModified, eventExists) == None

\* bookingSchema.pre('save'): the error thrown, or None
preSaveBooking(isNew, eventIdModified, eventExists) ==
    IF (isNew \/ eventIdModified) /\ eventExists = NoDoc
    THEN "DanglingReferenceError"
    ELSE None

-----------------------------------------------------------------------------
(* Inputs of the store model                                               *)

T_ab == <<"a", " ", "b">>                \* slug a-b
T_AB == <<"A", " ", " ", "b", "!">>      \* slug a-b as well
T_abc == <<" ", "a", "b", "c">>          \* slug abc
T_short == <<" ", "a", "b", " ">>        \* two characters once trimmed
T_long == [i \in 1..(MaxTitleLength + 1) |-> "a"]

D_one == <<"d", "e", "s", "c", "d", "e", "s", "c", "d", "e">>
D_two == <<"d", "e", "s", "c", " ", "d", "e", "s", "c", "2", "2">>
D_short == <<"d", "e", "s", "c">>

Date_iso == <<"2", "0", "2", "5", "-", "0", "6", "-", "1", "3">>
Date_carry == <<"2", "0", "2", "5", "-", "0", "2", "-", "3", "0">>
Date_bad == <<"2", "0", "2", "5", "-", "1", "3", "-", "4", "0">>

Time_9 == <<"9", ":", "0", "0">>
Time_pm == <<"2", ":", "3", "0", " ", "p", "m">>
Time_13pm == <<"1", "3", ":", "0", "0", " ", "P", "M">>
Time_bad == <<"2", "5", ":", "0", "0">>

Mode_online == <<"O", "n", "l", "i", "n", "e">>
Mode_bogus == <<"o", "n", "s", "i", "d", "e">>

Agenda_one == <<"intro">>

EventInput(title, description, date, time, mode, agenda) ==
    [title |-> title, description |-> description, date |-> date, time |-> time,
     mode |-> mode, agenda |-> agenda]

\* what Event.create is called with: every combination of title, date and time
\* over otherwise valid fields, and one document per static constraint broken
CreateInputs ==
    {EventInput(t, D_one, d, tm, Mode_online, Agenda_one) :
        t \in {T_ab, T_AB, T_abc}, d \in {Date_iso, Date_bad},
        tm \in {Time_9, Time_bad}}
    \cup {EventInput(t, D_one, Date_iso, Time_pm, Mode_online, Agenda_one) :
            t \in {T_short, T_long, Undefined}}
    \cup {EventInput(T_ab, D_short, Date_iso, Time_pm, Mode_online, Agenda_one),
          EventInput(T_ab, D_one, Date_bad, Time_pm, Mode_bogus, Agenda_one),
          EventInput(T_ab, D_one, Date_iso, Time_pm, Mode_online, <<>>),
          EventInput(T_ab, D_one, Undefined, Time_pm, Mode_online, Agenda_one),
          EventInput(T_abc, D_one, Date_iso, Time_13pm, Mode_online, Agenda_one)}

\* what a loaded Event is assigned before save(): Undefined leaves a field alone
UpdatePatches ==
    {EventInput(t, ds, d, tm, Undefined, Undefined) :
        t \in {Undefined, T_ab}, ds \in {Undefined, D_two, D_short},
        d \in {Undefined, Date_carry, Date_bad}, tm \in {Undefined, Time_pm, Time_bad}}

Email_ok == <<" ", "A", "@", "b", ".", "c">>
Email_nodot == <<"a", "@", "b">>
Email_twoat == <<"a", "@", "@", "b", ".", "c">>

BookingInputs ==
    {[eventId |-> e, email |-> m] :
        e \in EventIds \cup {NoId}, m \in {Email_ok, Email_nodot, Email_twoat, Undefined}}

-----------------------------------------------------------------------------
(* The store model: Event.create, load-assign-save, Booking.create         *)

IdleWriter ==
    [pc |-> "idle", op |-> None, id |-> NoId, doc |-> NoDoc, raw |-> NoDoc,
     modified |-> {}, ran |-> {}, err |-> None]

Failed(op, err, ran) ==
    [IdleWriter EXCEPT !.pc = "done", !.op = op, !.err = err, !.ran = ran]

\* the document a save works on: the fields assigned, through the setters
Assign(base, input) ==
    [f \in DOMAIN base |->
        IF f \in EventFields /\ input[f] # Undefined
        THEN ApplySetters(f, input[f]) ELSE base[f]]

BlankEvent == [f \in EventFields \cup {"slug"} |-> Undefined]

\* validation, then the pre-save hook, of the in-memory document `raw`
RunSave(op, id, raw, modified) ==
    IF ~ValidateEvent(raw) THEN Failed(op, "FieldValidationError", {})
    ELSE LET h == preSaveEvent(raw, modified)
         IN  IF ~h.ok THEN Failed(op, h.err, h.ran)
             ELSE [pc |-> "commit", op |-> op, id |-> id, doc |-> h.doc, raw |-> raw,
                   modified |-> modified, ran |-> h.ran, err |-> None]

\* Event.create(input) up to the point where the insert is sent to the store
CreateEvent(w, input) ==
    /\ wr[w].pc = "idle" /\ ops < MaxOps
    /\ ops' = ops + 1
    /\ LET raw == Assign(BlankEvent, input)
           modified == {f \in EventFields : input[f] # Undefined}
       IN  wr' = [wr EXCEPT ![w] = RunSave("create", ops + 1, raw, modified)]
    /\ UNCHANGED <<fn, fin, fout, events, bookings, cached, attempts, jobs, req, uri>>

\* findById(id), assignment of the patch, save() up to the point where the
\* update is sent to the store
UpdateEvent(w, id, patch) ==
    /\ wr[w].pc = "idle" /\ ops < MaxOps
    /\ events[id] # NoDoc
    /\ ops' = ops + 1
    /\ LET raw == Assign(events[id], patch)
           modified == {f \in EventFields : raw[f] # events[id][f]}
       IN  wr' = [wr EXCEPT ![w] = RunSave("update", id, raw, modified)]
    /\ UNCHANGED <<fn, fin, fout, events, bookings, cached, attempts, jobs, req, uri>>

\* the paths an update writes: the modified ones, and slug if the hook changed it
Written(w) ==
    wr[w].modified \cup (IF wr[w].doc.slug # wr[w].raw.slug THEN {"slug"} ELSE {})

\* the store applies the insert or the $set, under the unique index on slug
CommitEvent(w) ==
    /\ wr[w].pc = "commit"
    /\ LET id == wr[w].id
           doc == wr[w].doc
           checked == wr[w].op = "create" \/ "slug" \in Written(w)
       IN  IF checked /\ slugIndexConflict(events, id, doc.slug)
           THEN /\ wr' = [wr EXCEPT ![w] = [@ EXCEPT !.pc = "done",
                                                     !.err = "DuplicateSlugError"]]
                /\ UNCHANGED events
           ELSE /\ wr' = [wr EXCEPT ![w] = [@ EXCEPT !.pc = "done"]]
                /\ events' = [events EXCEPT ![id] =
                       IF wr[w].op = "create" THEN doc
                       ELSE [f \in DOMAIN doc |->
                                IF f \in Written(w) THEN doc[f] ELSE events[id][f]]]
    /\ UNCHANGED <<fn, fin, fout, bookings, cached, attempts, jobs, req, uri, ops>>

\* Booking.create(input): validation; the hook's lookup comes next
CreateBooking(w, input) ==
    /\ wr[w].pc = "idle" /\ ops < MaxOps
    /\ ops' = ops + 1
    /\ LET doc == [eventId |-> input.eventId,
                   email |-> IF input.email = Undefined THEN Undefined
                             ELSE toLowerCase(trim(input.email))]
       IN  wr' = [wr EXCEPT ![w] =
                    IF ~ValidateBooking(doc) THEN Failed("booking", "FieldValidationError", {})
                    ELSE [IdleWriter EXCEPT !.pc = "lookup", !.op = "booking", !.doc = doc]]
    /\ UNCHANGED <<fn, fin, fout, events, bookings, cached, attempts, jobs, req, uri>>

\* the pre-save hook of the Booking: await Event.findById, throw if null
LookupEvent(w) ==
    /\ wr[w].pc = "lookup"
    /\ LET err == preSaveBooking(TRUE, TRUE, findById(events, wr[w].doc.eventId))
       IN  wr' = [wr EXCEPT ![w] =
                    IF err # None THEN Failed("booking", err, {})
                    ELSE [@ EXCEPT !.pc = "insert"]]
    /\ UNCHANGED <<fn, fin, fout, events, bookings, cached, attempts, jobs, req, uri, ops>>

\* the store inserts the Booking
InsertBooking(w) ==
    /\ wr[w].pc = "insert"
    /\ bookings' = Append(bookings, wr[w].doc)
    /\ wr' = [wr EXCEPT ![w] = [@ EXCEPT !.pc = "done"]]
    /\ UNCHANGED <<fn, fin, fout, events, cached, attempts, jobs, req, uri, ops>>

\* the save's promise settles and the request ends
Return(w) ==
    /\ wr[w].pc = "done"
    /\ wr' = [wr EXCEPT ![w] = IdleWriter]
    /\ UNCHANGED <<fn, fin, fout, events, bookings, cached, attempts, jobs, req, uri, ops>>

-----------------------------------------------------------------------------
(* lib/mongodb.ts: the cached connection, and the GET-by-slug route.       *)
(* disconnectFromDatabase has no caller in the repository: no run of the   *)
(* program executes it, and it is not part of the model.                   *)

MaxAttempts == 3                   \* mongoose.connect calls in one run
Requests == {"r1", "r2", "r3"}     \* GET requests in flight at once
AttemptIds == 1..MaxAttempts
NoPromise == 0                     \* cached.promise = null
NoConn == "null"                   \* cached.conn = null
Mongoose == "mongoose"             \* the value mongoose.connect resolves to

\* a connectToDatabase that does not look at cached.promise
connectBranchNoPromiseCheck(c, uriSet) ==
    IF c.conn # NoConn THEN "conn"
    ELSE IF ~uriSet THEN "nouri"
    ELSE "connect"

\* connectToDatabase up to its first await: return the cached connection,
\* return the cached promise, throw for a missing MONGODB_URI, or connect
connectBranch(c, uriSet) ==
    IF c.conn # NoConn THEN "conn"
    ELSE IF c.promise # NoPromise THEN "promise"
    ELSE IF ~uriSet THEN "nouri"
    ELSE "connect"

\* a catch block that keeps the rejected promise cached
onConnectErrorKeep(c) == c

\* connectToDatabase's catch block: reset promise on error to allow retry
onConnectError(c) == [c EXCEPT !.promise = NoPromise]

\* a slug check that accepts a whitespace-only slug
isInvalidSlugNoTrim(slug) == slug = Undefined \/ slug = <<>>

\* !slug || typeof slug !== 'string' || slug.trim() === ''
isInvalidSlug(slug) == slug = Undefined \/ slug = <<>> \/ trim(slug) = <<>>

\* the status the route's catch block answers with
catchStatus(name, messageHasUri) ==
    IF messageHasUri THEN 500
    ELSE IF name = "CastError" THEN 400
    ELSE 500

\* Event.findOne({ slug })
findOne(evs, slug) ==
    LET hit == {id \in EventIds : evs[id] # NoDoc /\ evs[id].slug = slug}
    IN  IF hit = {} THEN NoDoc ELSE evs[CHOOSE id \in hit : TRUE]

\* the errors a findOne on a string slug can reject with (a string filter on
\* a String path never fails to cast, so CastError is not among them)
QueryErrors == {"MongoNetworkError"}

SlugArgs ==
    {Undefined, <<>>, <<" ", "\t">>, <<" ", "A", "-", "b">>, <<"a", "b", "c">>}

IdleReq ==
    [pc |-> "idle", slug |-> Undefined, att |-> NoPromise, role |-> None, got |-> NoConn,
     connErr |-> FALSE, qerr |-> FALSE, status |-> 0, body |-> NoDoc]

Respond(r, status, body) == [r EXCEPT !.pc = "responded", !.status = status, !.body = body]

FreshAttempt == [status |-> "unused", reactions |-> <<>>]

\* GET is invoked and runs to its first suspension inside connectToDatabase.
\* A request handler starts in its own turn of the event loop, so never
\* between the reactions of a settled attempt.
GET(r, slug) ==
    /\ req[r].pc = "idle" /\ jobs = <<>>
    /\ LET branch == connectBranch(cached, uri)
           me == [IdleReq EXCEPT !.slug = slug]
       IN  CASE branch = "conn" ->
                  /\ req' = [req EXCEPT ![r] = [me EXCEPT !.pc = "connected",
                                                         !.got = cached.conn]]
                  /\ UNCHANGED <<cached, attempts>>
             [] branch = "promise" ->
                  /\ req' = [req EXCEPT ![r] = [me EXCEPT !.pc = "await", !.role = "joined",
                                                         !.att = cached.promise]]
                  /\ attempts' = [attempts EXCEPT ![cached.promise].reactions = Append(@, r)]
                  /\ UNCHANGED cached
             [] branch = "nouri" ->
                  /\ req' = [req EXCEPT ![r] =
                        Respond([me EXCEPT !.connErr = TRUE], catchStatus("Error", TRUE), NoDoc)]
                  /\ UNCHANGED <<cached, attempts>>
             [] branch = "connect" ->
                  /\ \E id \in AttemptIds :
                        /\ attempts[id].status = "unused"
                        /\ \A j \in AttemptIds : j < id => attempts[j].status # "unused"
                        /\ attempts' = [attempts EXCEPT ![id] =
                              [status |-> "pending", reactions |-> <<r>>]]
                        /\ cached' = [cached EXCEPT !.promise = id]
                        /\ req' = [req EXCEPT ![r] = [me EXCEPT !.pc = "await",
                                                               !.role = "initiator",
                                                               !.att = id]]
    /\ UNCHANGED <<fn, fin, fout, events, bookings, wr, jobs, uri, ops>>

\* mongoose.connect settles; on success the .then callback caches the
\* connection; the reactions registered on the promise are queued in order
Settle(id, ok) ==
    /\ attempts[id].status = "pending" /\ jobs = <<>>
    /\ attempts' = [attempts EXCEPT ![id] =
          [status |-> IF ok THEN "ok" ELSE "failed", reactions |-> <<>>]]
    /\ cached' = IF ok THEN [cached EXCEPT !.conn = Mongoose] ELSE cached
    /\ jobs' = attempts[id].reactions
    /\ UNCHANGED <<fn, fin, fout, events, bookings, wr, req, uri, ops>>

\* the next queued reaction runs: the awaiting request resumes
Resume ==
    /\ jobs # <<>>
    /\ LET r == Head(jobs)
           ok == attempts[req[r].att].status = "ok"
       IN  /\ jobs' = Tail(jobs)
           /\ cached' = IF ~ok /\ req[r].role = "initiator" THEN onConnectError(cached)
                        ELSE cached
           /\ req' = [req EXCEPT ![r] =
                 IF ok
                 THEN [@ EXCEPT !.pc = "connected", !.att = NoPromise, !.role = None,
                                !.got = IF req[r].role = "initiator" THEN cached.conn
                                        ELSE Mongoose]
                 ELSE Respond([@ EXCEPT !.connErr = TRUE, !.att = NoPromise, !.role = None],
                              catchStatus("MongooseServerSelectionError", FALSE), NoDoc)]
    /\ UNCHANGED <<fn, fin, fout, events, bookings, wr, attempts, uri, ops>>

\* the slug is read from params and validated
Validate(r) ==
    /\ req[r].pc = "connected"
    /\ req' = [req EXCEPT ![r] =
          IF isInvalidSlug(@.slug) THEN Respond(@, 400, NoDoc) ELSE [@ EXCEPT !.pc = "query"]]
    /\ UNCHANGED <<fn, fin, fout, events, bookings, wr, cached, attempts, jobs, uri, ops>>

\* Event.findOne settles: with the document, with null, or with an error
Query(r, fails) ==
    /\ req[r].pc = "query"
    /\ req' = [req EXCEPT ![r] =
          IF fails
          THEN LET name == CHOOSE e \in QueryErrors : TRUE
               IN  Respond([@ EXCEPT !.qerr = TRUE], catchStatus(name, FALSE), NoDoc)
          ELSE LET event == findOne(events, toLowerCase(trim(@.slug)))
               IN  IF event = NoDoc THEN Respond(@, 404, NoDoc) ELSE Respond(@, 200, event)]
    /\ UNCHANGED <<fn, fin, fout, events, bookings, wr, cached, attempts, jobs, uri, ops>>

\* the response is sent
End(r) ==
    /\ req[r].pc = "responded"
    /\ req' = [req EXCEPT ![r] = IdleReq]
    /\ UNCHANGED <<fn, fin, fout, events, bookings, wr, cached, attempts, jobs, uri, ops>>

-----------------------------------------------------------------------------
(* The normalizers on their own: one call of one function on one input     *)

MaxTitleInput == 4        \* longest title fed to generateSlug on its own
MaxTimeDigit == 6         \* largest digit in the times fed to normalizeTime

TitleAlphabet == {"a", "B", "1", "_", " ", "-", "!"}
TitleInputs == UNION {[1..n -> TitleAlphabet] : n \in 0..MaxTitleInput}

TimeDigits == {DigitChar(n) : n \in 0..MaxTimeDigit}
TimeInputs ==
    {h \o <<":">> \o m \o sep \o suf :
        h \in {<<a>> : a \in TimeDigits} \cup {<<a, b>> : a \in TimeDigits, b \in TimeDigits},
        m \in {<<a, b>> : a \in TimeDigits, b \in TimeDigits},
        sep \in {<<>>, <<" ">>},
        suf \in {<<>>, <<"A", "M">>, <<"P", "M">>, <<"p", "m">>, <<"X", "M">>}}

applyGenerateSlug ==
    /\ fn = "generateSlug" /\ fout = NoResult
    /\ fout' = Ok(generateSlug(fin))
    /\ UNCHANGED <<fn, fin, events, bookings, wr, cached, attempts, jobs, req, uri, ops>>

applyNormalizeTime ==
    /\ fn = "normalizeTime" /\ fout = NoResult
    /\ fout' = normalizeTime(fin)
    /\ UNCHANGED <<fn, fin, events, bookings, wr, cached, attempts, jobs, req, uri, ops>>

-----------------------------------------------------------------------------
(* Specifications                                                          *)

NoCall == fn = None /\ fin = <<>> /\ fout = NoResult

EmptyStore ==
    /\ events = [id \in EventIds |-> NoDoc]
    /\ bookings = <<>>
    /\ wr = [w \in Writers |-> IdleWriter]
    /\ ops = 0

NotConnected ==
    /\ cached = [conn |-> NoConn, promise |-> NoPromise]
    /\ attempts = [id \in AttemptIds |-> FreshAttempt]
    /\ jobs = <<>>
    /\ req = [r \in Requests |-> IdleReq]

\* the store model: concurrent saves of Events and Bookings on an empty store
Init == NoCall /\ EmptyStore /\ NotConnected /\ uri = TRUE

Next ==
    \E w \in Writers :
        \/ \E input \in CreateInputs : CreateEvent(w, input)
        \/ \E id \in EventIds, patch \in UpdatePatches : UpdateEvent(w, id, patch)
        \/ CommitEvent(w)
        \/ \E input \in BookingInputs : CreateBooking(w, input)
        \/ LookupEvent(w)
        \/ InsertBooking(w)
        \/ Return(w)

Spec == Init /\ [][Next]_vars

\* an Event as Event.create stores it
StoredEvent(input) == preSaveEvent(Assign(BlankEvent, input), EventFields).doc

\* the store the route is run against: it holds one Event, with slug a-b
RouteStore ==
    [id \in EventIds |->
        IF id = 1 THEN StoredEvent(EventInput(T_ab, D_one, Date_iso, Time_pm, Mode_online,
                                              Agenda_one))
        ELSE NoDoc]

\* the route model: concurrent GET requests over the cached connection
InitConn ==
    /\ NoCall /\ NotConnected
    /\ events = RouteStore
    /\ bookings = <<>> /\ wr = [w \in Writers |-> IdleWriter] /\ ops = 0
    /\ uri \in BOOLEAN

NextConn ==
    \/ \E r \in Requests, slug \in SlugArgs : GET(r, slug)
    \/ \E id \in AttemptIds, ok \in BOOLEAN : Settle(id, ok)
    \/ Resume
    \/ \E r \in Requests : Validate(r)
    \/ \E r \in Requests, fails \in BOOLEAN : Query(r, fails)
    \/ \E r \in Requests : End(r)

SpecConn == InitConn /\ [][NextConn]_vars

\* generateSlug applied once to each title
InitSlug ==
    /\ fn = "generateSlug" /\ fin \in TitleInputs /\ fout = NoResult
    /\ EmptyStore /\ NotConnected /\ uri = TRUE

SpecSlug == InitSlug /\ [][applyGenerateSlug]_vars

\* normalizeTime applied once to each time string
InitTime ==
    /\ fn = "normalizeTime" /\ fin \in TimeInputs /\ fout = NoResult
    /\ EmptyStore /\ NotConnected /\ uri = TRUE

SpecTime == InitTime /\ [][applyNormalizeTime]_vars

-----------------------------------------------------------------------------
(* Properties of the normalizers                                           *)

SlugChars == LowerLetters \cup Digits \cup {"_", "-"}

IsSlugForm(s) ==
    /\ \A i \in 1..Len(s) : s[i] \in SlugChars
    /\ \A i \in 1..(Len(s) - 1) : ~(s[i] = "-" /\ s[i + 1] = "-")
    /\ Len(s) > 0 => s[1] # "-" /\ s[Len(s)] # "-"

\* C8: for every title, generateSlug returns a string made only of lowercase
\* word characters and hyphens, with no two hyphens in a row and no hyphen
\* at either end (the empty string included).
C8_SlugWellFormed == fout # NoResult => fout.ok /\ IsSlugForm(fout.val)

\* an upper-case letter, a space next to a hyphen and a special character
\* come out as b-a
C8_Witness ==
    /\ fin = <<"B", " ", "-", "a">>
    /\ fout # NoResult /\ fout.val = <<"b", "-", "a">>

\* H[H]:MM with the hour in 0..23 and the minute in 0..59
IsValid24h(s) ==
    \E c \in {2, 3} :
        /\ Len(s) = c + 2 /\ s[c] = ":"
        /\ AllDigits(SubSeq(s, 1, c - 1)) /\ AllDigits(SubSeq(s, c + 1, c + 2))
        /\ parseInt(SubSeq(s, 1, c - 1)) \in 0..23
        /\ parseInt(SubSeq(s, c + 1, c + 2)) \in 0..59

\* C10: normalizeTime either fails with InvalidTimeFormat or returns a valid
\* 24-hour time, hour 0..23 and minute 0..59, in the 24-hour branch and in
\* the AM/PM branch alike.
C10_ValidTime ==
    fout # NoResult =>
        IF fout.ok THEN IsValid24h(fout.val) ELSE fout.err = "InvalidTimeFormat"

-----------------------------------------------------------------------------
(* Properties of the store model                                           *)

Stored == {id \in EventIds : events[id] # NoDoc}

\* YYYY-MM-DD
IsCanonicalDate(s) ==
    /\ Len(s) = 10 /\ s[5] = "-" /\ s[8] = "-"
    /\ \A i \in {1, 2, 3, 4, 6, 7, 9, 10} : s[i] \in Digits
    /\ parseInt(SubSeq(s, 6, 7)) \in 1..12
    /\ parseInt(SubSeq(s, 9, 10)) \in 1..31

\* HH:MM, two-digit hour 00-23 and minute 00-59
IsCanonicalTime(s) == Len(s) = 5 /\ IsValid24h(s)

\* the static constraints of an Event, as the data model states them
StaticConstraintsHold(doc) ==
    /\ doc.title # Undefined /\ Len(doc.title) \in MinTitleLength..MaxTitleLength
    /\ doc.description # Undefined /\ Len(doc.description) >= MinDescriptionLength
    /\ doc.date # Undefined /\ doc.date # <<>>
    /\ doc.time # Undefined /\ doc.time # <<>>
    /\ doc.mode \in ModeValues
    /\ doc.agenda # Undefined /\ doc.agenda # <<>>

\* C1: a Booking whose eventId matches no stored Event when the pre-save
\* hook looks it up fails with DanglingReferenceError and leaves the Booking
\* collection as it was; every stored Booking references a stored Event.
C1_DanglingRejected ==
    /\ [](\A i \in 1..Len(bookings) : findById(events, bookings[i].eventId) # NoDoc)
    /\ [][\A w \in Writers :
            (/\ wr[w].pc = "lookup" /\ wr'[w].pc # "lookup"
             /\ (wr[w].doc.eventId \notin EventIds \/ events[wr[w].doc.eventId] = NoDoc))
            => /\ wr'[w].pc = "done" /\ wr'[w].err = "DanglingReferenceError"
               /\ bookings' = bookings]_vars

\* a Booking was refused for its missing Event while the collection held one
C1_Witness ==
    \E w \in Writers :
        /\ wr[w].pc = "done" /\ wr[w].op = "booking"
        /\ wr[w].err = "DanglingReferenceError"
        /\ Len(bookings) = 1

\* C3: no two stored Events ever have the same slug, concurrent creates
\* included: a create whose slug a stored Event already holds fails with
\* DuplicateSlugError and stores nothing.
C3_UniqueSlug ==
    /\ [](\A i \in Stored, j \in Stored : i # j => events[i].slug # events[j].slug)
    /\ [][\A w \in Writers :
            (/\ wr[w].pc = "commit" /\ wr[w].op = "create" /\ wr'[w].pc = "done"
             /\ \E id \in Stored : events[id].slug = wr[w].doc.slug)
            => wr'[w].err = "DuplicateSlugError" /\ events' = events]_vars

\* two creates in flight together, titles that differ, one slug: one is
\* stored and the other fails
C3_Witness ==
    \E w1 \in Writers, w2 \in Writers :
        /\ wr[w1].pc = "done" /\ wr[w1].op = "create" /\ wr[w1].err = "DuplicateSlugError"
        /\ wr[w2].pc = "done" /\ wr[w2].op = "create" /\ wr[w2].err = None
        /\ wr[w1].doc.slug = wr[w2].doc.slug /\ wr[w1].doc.title # wr[w2].doc.title
        /\ events[wr[w2].id] = wr[w2].doc
        /\ events[wr[w1].id] = NoDoc

\* C4: a create or update that breaks a static constraint, or whose changed
\* date or time does not normalize, never reaches the store: the Event
\* collection changes only by the commit of a save whose fields all passed,
\* and a failing save leaves it as it was.
C4_FailedWriteAborts ==
    /\ [](\A w \in Writers : wr[w].pc = "commit" =>
            /\ StaticConstraintsHold(wr[w].raw)
            /\ "date" \in wr[w].modified => normalizeDate(wr[w].raw.date).ok
            /\ "time" \in wr[w].modified => normalizeTime(wr[w].raw.time).ok)
    /\ [][/\ events' # events => \E w \in Writers : wr[w].pc = "commit" /\ wr'[w].err = None
          /\ \A w \in Writers :
                (wr'[w].pc = "done" /\ wr'[w].err # None /\ wr[w].pc # "done")
                => events' = events]_vars

\* an update changed title and date; the slug was recomputed in memory, the
\* date failed to normalize, and the stored Event kept its title and slug
C4_Witness ==
    \E w \in Writers :
        /\ wr[w].pc = "done" /\ wr[w].op = "update"
        /\ wr[w].err = "InvalidDateFormat" /\ "slug" \in wr[w].ran
        /\ \E id \in Stored : events[id].slug = generateSlug(events[id].title)

\* C5: every stored Event's date is YYYY-MM-DD and its time is HH:MM with a
\* two-digit hour 00-23 and a minute 00-59.
C5_StoredCanonical ==
    \A id \in Stored : IsCanonicalDate(events[id].date) /\ IsCanonicalTime(events[id].time)

\* C6: an update that changes only the description runs none of the three
\* normalizations and leaves the stored slug, date and time as they were;
\* a save recomputes slug only with title changed, date only with date
\* changed, time only with time changed.
C6_DescriptionOnly ==
    /\ [](\A w \in Writers : wr[w].pc = "commit" =>
            /\ "slug" \in wr[w].ran => "title" \in wr[w].modified
            /\ "date" \in wr[w].ran => "date" \in wr[w].modified
            /\ "time" \in wr[w].ran => "time" \in wr[w].modified)
    /\ [][\A w \in Writers :
            (/\ wr[w].pc = "commit" /\ wr[w].op = "update" /\ wr'[w].pc = "done"
             /\ wr[w].modified = {"description"})
            => /\ wr[w].ran = {}
               /\ events'[wr[w].id].slug = events[wr[w].id].slug
               /\ events'[wr[w].id].date = events[wr[w].id].date
               /\ events'[wr[w].id].time = events[wr[w].id].time
               /\ events'[wr[w].id].description = wr[w].doc.description]_vars

\* a description-only update was committed
C6_Witness ==
    \E w \in Writers :
        /\ wr[w].pc = "done" /\ wr[w].op = "update" /\ wr[w].err = None
        /\ wr[w].modified = {"description"}
        /\ events[wr[w].id].description = D_two
        /\ events[wr[w].id].slug = generateSlug(events[wr[w].id].title)

-----------------------------------------------------------------------------
(* Properties of the route model                                           *)

Pending == {id \in AttemptIds : attempts[id].status = "pending"}

Queued == {jobs[i] : i \in 1..Len(jobs)}

\* C2: at most one connect attempt is in flight; while it is pending it is
\* the cached promise, and every caller that arrived awaits it; once an
\* attempt has succeeded no further connect is started, and every caller
\* that got past connectToDatabase holds the one cached connection.
C2_SingleFlight ==
    /\ Cardinality(Pending) <= 1
    /\ \A id \in Pending : cached.promise = id /\ cached.conn = NoConn
    /\ \A r \in Requests : req[r].pc = "await" =>
            \/ req[r].att \in Pending /\ req[r].att = cached.promise
            \/ r \in Queued
    /\ \A id \in AttemptIds : attempts[id].status = "ok" =>
            /\ cached.conn = Mongoose
            /\ \A j \in AttemptIds : j > id => attempts[j].status = "unused"
    /\ \A r \in Requests : req[r].pc \in {"connected", "query"} =>
            req[r].got = Mongoose /\ req[r].got = cached.conn

\* three callers arrived while nothing was cached: one started the attempt
\* and the other two await the same one
C2_Witness ==
    \E r1 \in Requests, r2 \in Requests, r3 \in Requests :
        /\ r2 # r3
        /\ req[r1].pc = "await" /\ req[r1].role = "initiator"
        /\ req[r2].pc = "await" /\ req[r2].role = "joined"
        /\ req[r3].pc = "await" /\ req[r3].role = "joined"
        /\ req[r1].att = req[r2].att /\ req[r2].att = req[r3].att
        /\ Pending = {req[r1].att}

\* the slug argument is missing, empty or whitespace-only
Malformed(slug) == slug = Undefined \/ \A i \in 1..Len(slug) : IsSpace(slug[i])

\* the stored Event whose slug is the trimmed, lowercased argument
Matching(slug) ==
    {id \in Stored : events[id].slug = toLowerCase(trim(slug))}

\* C7 as stated: 400 when the slug is malformed, 200 with the Event when a
\* stored slug equals the trimmed, lowercased argument, 404 when the
\* argument is well-formed and nothing matches, 500 when connecting to or
\* querying the store fails.
C7_AsStated ==
    \A r \in Requests : req[r].pc = "responded" =>
        /\ req[r].status \in {200, 400, 404, 500}
        /\ Malformed(req[r].slug) => req[r].status = 400
        /\ (~Malformed(req[r].slug) /\ Matching(req[r].slug) # {}) => req[r].status = 200
        /\ (~Malformed(req[r].slug) /\ Matching(req[r].slug) = {}) => req[r].status = 404
        /\ (req[r].connErr \/ req[r].qerr) => req[r].status = 500

\* C7: every request is answered with exactly one status: 500 when the
\* connection fails, whatever the slug; otherwise 400 when the slug is
\* malformed; otherwise 500 when the query fails, 200 with the Event when a
\* stored slug equals the trimmed, lowercased argument, and 404 when none
\* does.
C7_Statuses ==
    \A r \in Requests : req[r].pc = "responded" =>
        /\ req[r].status =
              IF req[r].connErr THEN 500
              ELSE IF Malformed(req[r].slug) THEN 400
              ELSE IF req[r].qerr THEN 500
              ELSE IF Matching(req[r].slug) # {} THEN 200
              ELSE 404
        /\ req[r].status = 200 =>
              \E id \in Matching(req[r].slug) : req[r].body = events[id]
        /\ req[r].status # 200 => req[r].body = NoDoc

\* one request with a whitespace-only slug met a failed connection and got
\* 500, another with an upper-case, padded slug got the Event with 200
C7_Witness ==
    \E r1 \in Requests, r2 \in Requests :
        /\ req[r1].pc = "responded" /\ req[r1].connErr
        /\ req[r1].slug = <<" ", "\t">> /\ req[r1].status = 500
        /\ req[r2].pc = "responded" /\ req[r2].status = 200
        /\ req[r2].slug = <<" ", "A", "-", "b">>

\* C9: a failed attempt is delivered to every caller awaiting it, caches no
\* connection, and is cleared from the cache before the next call: a call
\* made after a failure, with nothing cached, starts a fresh attempt.
C9_FailureNotSticky ==
    /\ []((\A id \in AttemptIds : attempts[id].status # "ok") => cached.conn = NoConn)
    /\ [](jobs = <<>> =>
            (cached.promise = NoPromise
             \/ attempts[cached.promise].status \in {"pending", "ok"}))
    /\ [](\A r \in Requests :
            (req[r].pc = "await" /\ attempts[req[r].att].status = "failed") => r \in Queued)
    /\ [](\A r \in Requests :
            (req[r].pc = "responded" /\ req[r].connErr) => req[r].status = 500)
    /\ [][\A r \in Requests :
            (/\ req[r].pc = "idle" /\ req'[r].pc # "idle"
             /\ uri /\ cached.conn = NoConn /\ Pending = {}
             /\ \E id \in AttemptIds : attempts[id].status = "failed")
            => /\ req'[r].pc = "await" /\ req'[r].role = "initiator"
               /\ attempts[req'[r].att].status = "unused"
               /\ attempts'[req'[r].att].status = "pending"]_vars

\* after a failed attempt had been delivered to two callers, a later call
\* connected
C9_Witness ==
    \E r1 \in Requests, r2 \in Requests, r3 \in Requests :
        /\ r1 # r2
        /\ req[r1].pc = "responded" /\ req[r1].connErr /\ req[r1].status = 500
        /\ req[r2].pc = "responded" /\ req[r2].connErr /\ req[r2].status = 500
        /\ req[r3].pc = "connected" /\ req[r3].got = Mongoose
        /\ attempts[1].status = "failed" /\ attempts[2].status = "ok"

=============================================================================
